---- MODULE Spec2Model ----
(***************************************************************************)
(* Model of the Lookonchain feed bot (src/main.py): the two state files,   *)
(* the sequential-id fetcher and one invocation of main() after another    *)
(* (Spec, SpecLive); one call of send_to_telegram followed step by step    *)
(* (SpecSend), one call of process_with_ai (SpecAI), one call of           *)
(* fetch_new_feeds (SpecFetch), and runs over a backlog larger than one    *)
(* run handles (SpecBatch).                                                *)
(* Text files hold strings; a string is a sequence of one-character        *)
(* strings, so that str() / int() / strip() are computed, not assumed.     *)
(* Messages are sequences of runs of characters, so that slices and        *)
(* lengths are computed at their real sizes.                               *)
(***************************************************************************)
EXTENDS Integers, Sequences, FiniteSets, TLC

\* ------------------------------------------------------------- bounds
\* Number of feed ids above the first-run baseline the source is defined on.
MaxIds == 2
\* Feeds of the source that a filter rejects (meme coin, noise).
MaxRejects == 1
\* Number of feed ids of the sources of the forward-progress specification.
MaxLiveIds == 7
\* Faults per behaviour: transient probe failures (timeout, exception, non-200),
\* kills by the scheduler, file operations that raise.
MaxFaults == 1
\* Number of feed ids of the sources of the batch specification: more than
\* one call of the fetcher returns.
MaxBatchIds == 16

\* ------------------------------------------------- program constants
MAX_FEEDS_PER_RUN == 12
test_id == 42194
max_new_feeds == 15
max_consecutive_errors == 5
max_attempts == 50

VARIABLES
    last_feed_id_txt,       \* the watermark file: [exists, text]
    processed_hashes_txt,   \* the ledger file: [exists, lines]
    source,                 \* upstream: what GET /feeds/<id> serves, per id
    pc,                     \* position of the current invocation of main()
    last_id_int,            \* main(): the watermark as loaded
    new_feeds,              \* main(): the list fetch_new_feeds returned
    processed_hashes,       \* main(): the ledger as a set, loaded then added to
    published_count,        \* main(): successful publishes of this run
    max_processed_id_int,   \* main(): the max-processed tracker
    i,                      \* main(): loop index into new_feeds[:12], 0-based
    history,                \* ghost: every item handled, in order, all runs
    run,                    \* ghost: what this run started from / did so far
    saved_hi,               \* ghost: largest integer the watermark file has held
    faults,                 \* ghost: faults injected so far
    env,                    \* os.environ: the chat ids of the configuration
    delivered,              \* ghost: every message Telegram accepted, in order
    tg,                     \* the frame of one call of send_to_telegram
    ai,                     \* the frame of one call of process_with_ai
    fx                      \* the frame of one call of fetch_new_feeds

vars == <<last_feed_id_txt, processed_hashes_txt, source, pc, last_id_int,
          new_feeds, processed_hashes, published_count, max_processed_id_int,
          i, history, run, saved_hi, faults, env, delivered, tg, ai, fx>>

\* What main() and the scheduler leave alone: the configuration and the
\* frames of the two functions that are followed step by step on their own.
apart == <<env, tg, ai, fx>>
\* What a call of send_to_telegram or process_with_ai followed on its own
\* leaves alone: the state of main() and of the files.
main_state == <<last_feed_id_txt, processed_hashes_txt, source, pc, last_id_int,
                new_feeds, processed_hashes, published_count, max_processed_id_int,
                i, history, run, saved_hi, faults, env, delivered>>

\* ------------------------------------------------------------ strings
DigitChars == <<"0", "1", "2", "3", "4", "5", "6", "7", "8", "9">>
Whitespace == {"\n", " "}

Max(a, b) == IF a >= b THEN a ELSE b
Min(a, b) == IF a <= b THEN a ELSE b

IsDigit(c) == \E d \in 1..10 : DigitChars[d] = c
DigitValue(c) == (CHOOSE d \in 1..10 : DigitChars[d] = c) - 1

\* str(n) for n >= 0: the decimal digits, most significant first.
RECURSIVE Str(_)
Str(n) == IF n < 10 THEN <<DigitChars[n + 1]>>
          ELSE Append(Str(n \div 10), DigitChars[(n % 10) + 1])

\* s.strip(): leading and trailing whitespace removed.
RECURSIVE LStrip(_)
LStrip(s) == IF s # <<>> /\ Head(s) \in Whitespace THEN LStrip(Tail(s)) ELSE s
RECURSIVE RStrip(_)
RStrip(s) == IF s # <<>> /\ s[Len(s)] \in Whitespace
             THEN RStrip(SubSeq(s, 1, Len(s) - 1)) ELSE s
Strip(s) == RStrip(LStrip(s))

\* The value of a string of digits (s is all digits).
RECURSIVE DigitsValue(_)
DigitsValue(s) == IF s = <<>> THEN 0
                  ELSE 10 * DigitsValue(SubSeq(s, 1, Len(s) - 1))
                       + DigitValue(s[Len(s)])

\* int(s) succeeds (no ValueError) on a non-empty string of digits.
IntParses(s) == s # <<>> /\ \A k \in 1..Len(s) : IsDigit(s[k])

\* main(): int(last_id_str) if last_id_str else 0, ValueError -> 0.
ParseLastId(last_id_str) ==
    IF last_id_str = <<>> THEN 0
    ELSE IF IntParses(last_id_str) THEN DigitsValue(last_id_str)
    ELSE 0

\* ------------------------------------------------------- environment
\* os.getenv(name) of a variable that is not set.
None == "None"
\* The configurations: TELEGRAM_CHAT_ID is required (lines 27-36), ADMIN_CHAT_ID
\* is optional.
Environments ==
    [TELEGRAM_CHAT_ID : {"@channel"}, ADMIN_CHAT_ID : {None, "@admin"}]

getenv(name, default) == IF env[name] = None THEN default ELSE env[name]

TARGET_CHAT_ID == getenv("TELEGRAM_CHAT_ID", None)
\* Line 21.
ADMIN_CHAT_ID == getenv("ADMIN_CHAT_ID", TARGET_CHAT_ID)

\* Line 371.
chat_id(is_error) == IF is_error THEN ADMIN_CHAT_ID ELSE TARGET_CHAT_ID

\* ------------------------------------------------------------- files
\* The integer main() reads out of a watermark file.
IntOf(file) == ParseLastId(IF file.exists THEN Strip(file.text) ELSE <<>>)

\* get_last_processed_id(): the stripped file text, "" when the file is missing.
get_last_processed_id ==
    IF last_feed_id_txt.exists THEN Strip(last_feed_id_txt.text) ELSE <<>>

\* save_last_processed_id(feed_id): overwrite the file with the string.
save_last_processed_id(feed_id) == [exists |-> TRUE, text |-> feed_id]

\* get_processed_hashes(): the stripped non-empty lines, set() when missing.
get_processed_hashes ==
    IF processed_hashes_txt.exists
    THEN {Strip(processed_hashes_txt.lines[k]) :
              k \in {j \in 1..Len(processed_hashes_txt.lines) :
                         Strip(processed_hashes_txt.lines[j]) # <<>>}}
    ELSE {}

\* Mutant of save_processed_hash: the line is not written.
save_processed_hash_lost(content_hash) == processed_hashes_txt
\* save_processed_hash(content_hash): append one line (creates the file).
save_processed_hash(content_hash) ==
    [exists |-> TRUE, lines |-> Append(processed_hashes_txt.lines, content_hash)]

\* ------------------------------------------------------------ source
\* The first n ids above the first-run baseline.
Ids(n) == (test_id + 1)..(test_id + n)
\* "missing" stands for every permanent failure of a probe: 404, no <h1>,
\* no content, content shorter than 50 characters.
Kinds == {"missing", "plain", "meme", "noise"}
\* The sources considered: any pattern of missing and plain feeds, with at most
\* MaxRejects feeds that a filter of main() rejects.
Sources == {s \in [Ids(MaxIds) -> Kinds] :
               Cardinality({id \in Ids(MaxIds) : s[id] \in {"meme", "noise"}}) <= MaxRejects}

Kind(id) == IF id \in DOMAIN source THEN source[id] ELSE "missing"
ValidIds == {id \in DOMAIN source : source[id] # "missing"}

\* One probe of fetch_new_feeds: TRUE when the page yields a feed. `failing`
\* are the ids whose request fails transiently in this call.
ProbeOk(id, failing) == id \notin failing /\ Kind(id) # "missing"

\* Mutant of TooManyErrors: the loop gives up one failure early.
TooManyErrors_early(consecutive_errors) ==
    consecutive_errors >= max_consecutive_errors - 1
\* Lines 86, 96, 108, 142, 154, 175: the loop gives up on the source.
TooManyErrors(consecutive_errors) == consecutive_errors >= max_consecutive_errors

\* Mutant of LoopGoesOn: the number of feeds collected is not limited.
LoopGoesOn_noFeedCap(n_feeds, attempts) == attempts < max_attempts
\* Line 72: the condition of the while loop.
LoopGoesOn(n_feeds, attempts) == n_feeds < max_new_feeds /\ attempts < max_attempts

\* Mutant of ErrorsAfterSuccess: a successful probe leaves the counter alone.
ErrorsAfterSuccess_kept(consecutive_errors) == consecutive_errors
\* Line 160: a successful probe resets the counter.
ErrorsAfterSuccess(consecutive_errors) == 0

RECURSIVE FetchLoop(_, _, _, _, _)
FetchLoop(feeds, current_id, consecutive_errors, attempts, failing) ==
    IF ~LoopGoesOn(Len(feeds), attempts) THEN feeds
    ELSE IF ~ProbeOk(current_id, failing)
         THEN IF TooManyErrors(consecutive_errors + 1) THEN feeds
              ELSE FetchLoop(feeds, current_id + 1, consecutive_errors + 1,
                             attempts + 1, failing)
         ELSE FetchLoop(Append(feeds, [id |-> current_id, kind |-> Kind(current_id)]),
                        current_id + 1, ErrorsAfterSuccess(consecutive_errors),
                        attempts + 1, failing)

\* Mutant of fetch_new_feeds: the feeds are returned newest first.
fetch_new_feeds_newest_first(last_id, failing) ==
    LET feeds == FetchLoop(<<>>, last_id + 1, 0, 0, failing)
    IN [n \in 1..Len(feeds) |-> feeds[Len(feeds) + 1 - n]]
\* Lines 63-185: ids are probed upwards from last_id + 1 and appended as found.
fetch_new_feeds(last_id, failing) == FetchLoop(<<>>, last_id + 1, 0, 0, failing)

\* ------------------------------------------------------- long strings
\* A message is kept as a sequence of runs: `n` characters of the piece
\* `piece`, starting at offset `from` of that piece. Pieces are the inputs
\* (title, text, sentiment, ...) and the literals of the f-strings.
Piece(name, n) == IF n > 0 THEN <<[piece |-> name, from |-> 0, n |-> n]>> ELSE <<>>

\* len(s)
RECURSIVE StrLen(_)
StrLen(s) == IF s = <<>> THEN 0 ELSE Head(s).n + StrLen(Tail(s))

\* The first n characters of s; the empty string when n <= 0.
RECURSIVE Take(_, _)
Take(s, n) ==
    IF n <= 0 \/ s = <<>> THEN <<>>
    ELSE IF Head(s).n <= n THEN <<Head(s)>> \o Take(Tail(s), n - Head(s).n)
         ELSE <<[Head(s) EXCEPT !.n = n]>>

\* s without its first n characters.
RECURSIVE Drop(_, _)
Drop(s, n) ==
    IF n <= 0 \/ s = <<>> THEN s
    ELSE IF Head(s).n <= n THEN Drop(Tail(s), n - Head(s).n)
         ELSE <<[Head(s) EXCEPT !.from = @ + n, !.n = @ - n]>> \o Tail(s)

\* Python's s[:n]: for a negative n, all but the last -n characters.
Slice(s, n) == IF n >= 0 THEN Take(s, n) ELSE Take(s, StrLen(s) + n)

\* s.endswith(suffix)
EndsWith(s, suffix) ==
    /\ StrLen(s) >= StrLen(suffix)
    /\ Drop(s, StrLen(s) - StrLen(suffix)) = suffix

\* ---------------------------------------- send_to_telegram: the message
MessageCap == 4096
FallbackCut == 4090
max_title_len == 200
MinTextLen == 100
ShortTitleLen == 100

Dots == Piece("...", 3)
NL2 == Piece("\n\n", 2)
SP == Piece(" ", 1)

\* f"\n\nContext: {sentiment}"
Footer(sentiment) == Piece("\n\nContext: ", 11) \o sentiment

\* Lines 400-402 and 410-412: what precedes the text.
Header(hashtags, emoji, feed_title) ==
    IF hashtags # <<>>
    THEN IF feed_title # <<>>
         THEN hashtags \o NL2 \o emoji \o SP \o feed_title \o NL2
         ELSE hashtags \o NL2 \o emoji \o SP
    ELSE IF feed_title # <<>>
         THEN emoji \o SP \o feed_title \o NL2
         ELSE emoji \o SP

\* Lines 382-384.
CutTitle(feed_title) ==
    IF feed_title # <<>> /\ StrLen(feed_title) > max_title_len
    THEN Slice(feed_title, max_title_len) \o Dots
    ELSE feed_title

\* Lines 403 and 413.
MaxTextLen(header, footer) == MessageCap - StrLen(header) - StrLen(footer) - 3

\* Lines 398-415: the message rebuilt around a truncated text.
Truncated(hashtags, emoji, feed_title, text, sentiment) ==
    LET footer == Footer(sentiment)
        header == Header(hashtags, emoji, feed_title)
        max_text_len == MaxTextLen(header, footer)
        short_title == IF feed_title # <<>>
                       THEN Slice(feed_title, ShortTitleLen) \o Dots ELSE <<>>
        short_header == Header(hashtags, emoji, short_title)
    IN IF max_text_len > MinTextLen
       THEN header \o Slice(text, max_text_len) \o Dots \o footer
       ELSE short_header \o Slice(text, MaxTextLen(short_header, footer)) \o Dots
                \o footer

\* Lines 376-415: the message of a publish, before the last test of its length.
Formatted(hashtags, emoji, title, text, sentiment) ==
    LET feed_title == CutTitle(title)
        message == Header(hashtags, emoji, feed_title) \o text \o Footer(sentiment)
    IN IF StrLen(message) > MessageCap
       THEN Truncated(hashtags, emoji, feed_title, text, sentiment)
       ELSE message

\* Lines 417-418.
FinalCut(message) ==
    IF StrLen(message) > MessageCap THEN Slice(message, FallbackCut) \o Dots
    ELSE message

\* Lines 373-418: the text send_to_telegram posts. `call` holds the arguments:
\* is_error, and analysis_data (the message itself in error mode).
MessageOf(call) ==
    FinalCut(IF call.is_error THEN call.analysis_data
             ELSE Formatted(call.hashtags, call.emoji, call.feed_title,
                            call.analysis_data.text, call.analysis_data.sentiment))

\* ------------------------------------------------------- main(): parts
\* Mutants of IsFirstRun: the baseline branch taken whenever the watermark is
\* not the baseline / never taken.
IsFirstRun_unlessBaseline(last) == last # test_id
IsFirstRun_never(last) == last < 0
IsFirstRun(last) == last = 0

\* Mutant of AlreadyProcessed: the ledger is not consulted.
AlreadyProcessed_unchecked(feed_id_str, hashes) == FALSE
AlreadyProcessed(feed_id_str, hashes) == feed_id_str \in hashes

IsMemeCoin(feed) == feed.kind = "meme"

IsNoise(feed) == feed.kind = "noise"

\* Mutant of TrackerAfterDecline: a declined item is left for the next run.
TrackerAfterDecline_retry(tracker, id) == tracker
\* The tracker after an item for which process_with_ai returned None.
TrackerAfterDecline(tracker, id) == Max(tracker, id)

\* Mutant of LoopLen: the loop runs over everything fetched.
LoopLen_all(feeds) == Len(feeds)
\* The slice the loop runs over: new_feeds[:MAX_FEEDS_PER_RUN].
LoopLen(feeds) == Min(Len(feeds), MAX_FEEDS_PER_RUN)

\* Mutant of ShouldSave: the watermark is not saved after the loop.
ShouldSave_never(tracker, last) == FALSE
\* Line 562: the watermark is saved when the tracker has moved.
ShouldSave(tracker, last) == tracker > last

\* Mutant of TrackerAfterReject: a rejected item leaves the tracker alone.
TrackerAfterReject_stays(tracker, id) == tracker
\* Lines 486, 493 and 529: the tracker after an item that was already recorded
\* or that a filter rejected.
TrackerAfterReject(tracker, id) == Max(tracker, id)

\* Mutant of TrackerBeforePublish: the tracker waits for the publish.
TrackerBeforePublish_late(tracker, id) == tracker
\* Line 549: the tracker is advanced before send_to_telegram is called.
TrackerBeforePublish(tracker, id) == Max(tracker, id)

\* Mutant of IndexAfterPublish: a failed publish breaks out of the loop.
IndexAfterPublish_break(index, success, n) == IF success THEN index + 1 ELSE n
\* Lines 553-560: no break on a failed publish; the loop takes the next item.
IndexAfterPublish(index, success, n) == index + 1

\* ---------------------------------------------------------------- Init
\* The frame of a function that is not being followed.
NoCall == [pc |-> "none"]

NoRun == [first |-> FALSE, wm_text |-> <<>>, wm_exists |-> FALSE, hist_len |-> 0,
          ledger_len |-> 0, saved_hi |-> 0, failed |-> {}, save_raised |-> FALSE,
          in_ledger |-> FALSE, exc |-> None, exc_item |-> 0, exc_delivered |-> 0,
          notify_calls |-> 0, notice |-> <<>>, sent |-> None, propagated |-> None,
          wm_writes |-> 0, stages |-> <<>>]

\* The watermark file at deployment: missing, empty, "0", not a number, or a
\* baseline somebody seeded (with the newline an editor leaves).
InitialWatermarks ==
    { [exists |-> FALSE, text |-> <<>>],
      [exists |-> TRUE, text |-> <<>>],
      [exists |-> TRUE, text |-> <<"0">>],
      [exists |-> TRUE, text |-> <<"4", "x">>],
      [exists |-> TRUE, text |-> Append(Str(test_id), "\n")] }

\* The sources of the forward-progress specification: missing and plain feeds.
SourcesLive == [Ids(MaxLiveIds) -> {"missing", "plain"}]

\* The scenario of the specification: watermark 100; 101 is rejected by a
\* filter, 102 does not exist, 103, 104 and 105 pass the filters.
ScenarioWatermarks == {[exists |-> TRUE, text |-> Str(100)]}
ScenarioSources ==
    {(101 :> k @@ 102 :> "missing" @@ 103 :> "plain" @@ 104 :> "plain" @@ 105 :> "plain") :
         k \in {"meme", "noise"}}

MainInit(watermarks, sources) ==
    /\ last_feed_id_txt \in watermarks
    /\ processed_hashes_txt = [exists |-> FALSE, lines |-> <<>>]
    /\ source \in sources
    /\ pc = "idle"
    /\ last_id_int = 0
    /\ new_feeds = <<>>
    /\ processed_hashes = {}
    /\ published_count = 0
    /\ max_processed_id_int = 0
    /\ i = 0
    /\ history = <<>>
    /\ run = NoRun
    /\ saved_hi = IntOf(last_feed_id_txt)
    /\ faults = 0
    /\ env \in Environments
    /\ delivered = <<>>

\* main() invoked again and again; no function is followed on its own.
InitWith(watermarks, sources) ==
    /\ MainInit(watermarks, sources)
    /\ tg = NoCall
    /\ ai = NoCall
    /\ fx = NoCall

Init ==
    \/ InitWith(InitialWatermarks, Sources)
    \/ InitWith(ScenarioWatermarks, ScenarioSources)

InitLive == InitWith(InitialWatermarks, SourcesLive)

\* -------------------------------------------------- main(): the handler
TracebackExcerpt == 500
\* traceback.format_exc(): shorter and longer than the excerpt.
Tracebacks == {Piece("traceback", n) : n \in {120, 3000}}
ExceptionText == Piece("str(e)", 40)
\* What a call of send_to_telegram can do, seen from its caller: return True,
\* return False, or raise.
SendOutcomes == {"True", "False", "raise"}

\* Mutant of notify_error: without the try / except of lines 440-444.
notify_error_unguarded(sent) == IF sent = "raise" THEN "raised" ELSE "returned"
\* Lines 439-444: whatever send_to_telegram does, notify_error returns.
notify_error(sent) == "returned"

\* Mutant of Propagated: the handler ends without `raise`.
Propagated_swallowed(exc, notified) == None
\* Line 572: `raise` re-raises the exception the handler caught; an exception
\* raised inside the handler would leave main() in its place.
Propagated(exc, notified) == IF notified = "returned" THEN exc ELSE "raised in handler"

\* ------------------------------------------------------------- ghosts
\* One handled item: its id, what became of it, whether the ledger file held
\* its key when the loop body began, the watermark its run loaded, and the
\* largest watermark saved before its run began.
Entry(item, outcome, in_ledger) ==
    [id |-> item.id, outcome |-> outcome, in_ledger |-> in_ledger,
     last |-> last_id_int, hi |-> run.saved_hi]

KeyInLedgerFile(id) == Str(id) \in get_processed_hashes

ResetLocals ==
    /\ last_id_int' = 0
    /\ new_feeds' = <<>>
    /\ processed_hashes' = {}
    /\ published_count' = 0
    /\ max_processed_id_int' = 0
    /\ i' = 0

IOOutcomes == {"ok", "raise"}

\* Mutant of AfterRaise: the error of a file operation is ignored.
AfterRaise_ignored(site) == "processing"
\* Lines 449 and 567: every call of main() is inside the try; an exception
\* raised by the call `site` takes control to the handler.
AfterRaise(site) == "aborted"

\* The run record once the call `site` has raised: control is in the handler
\* of line 567. Remembered: the item the loop was working on, and how many
\* messages had been delivered.
Caught(r, site) ==
    [r EXCEPT !.exc = site,
              !.save_raised = site \in {"save_last_processed_id", "save_processed_hash"},
              !.exc_item = IF pc = "processing" /\ i < LoopLen(new_feeds)
                           THEN new_feeds[i + 1].id ELSE 0,
              !.exc_delivered = Len(delivered)]

\* The run record once a stage was called on the item the loop is working
\* on: "transform" is the call of process_with_ai (line 538) with what it
\* returned, "publish" the call of send_to_telegram (line 551). `known` is
\* whether the id was in the loaded ledger at the call.
Staged(r, stage, result) ==
    [r EXCEPT !.stages = Append(@, [stage |-> stage, id |-> new_feeds[i + 1].id,
                                    known |-> Str(new_feeds[i + 1].id) \in processed_hashes,
                                    result |-> result])]

\* Line 477: the for loop is over once every item of the slice has had its
\* turn; lines 562-565 come after the loop.
LoopOver_afterFirst(index, n) == index >= 1
LoopOver(index, n) == index >= n

\* A file operation that raises uses up one fault of the budget.
IOAllowed(io) == io = "ok" \/ faults < MaxFaults
FaultCount(io) == IF io = "ok" THEN faults ELSE faults + 1

\* The feed the loop body is working on.
feed == new_feeds[i + 1]
InLoop == pc = "processing" /\ ~LoopOver(i, LoopLen(new_feeds))

\* --------------------------------------------------------------- main()
\* Lines 450-463: load the watermark; on the never-run sentinel save the
\* baseline and return.
Begin(io) ==
    /\ pc = "idle"
    /\ IOAllowed(io)
    /\ LET last == ParseLastId(get_last_processed_id)
           started == [NoRun EXCEPT !.first = TRUE,
                                    !.wm_text = last_feed_id_txt.text,
                                    !.wm_exists = last_feed_id_txt.exists,
                                    !.hist_len = Len(history),
                                    !.ledger_len = Len(processed_hashes_txt.lines),
                                    !.saved_hi = saved_hi]
       IN /\ last_id_int' = last
          /\ IF IsFirstRun(last)
             THEN IF io = "ok"
                  THEN /\ last_feed_id_txt' = save_last_processed_id(Str(test_id))
                       /\ saved_hi' = Max(saved_hi, IntOf(last_feed_id_txt'))
                       /\ pc' = "done"
                       /\ run' = [started EXCEPT !.wm_writes = 1]
                  ELSE /\ pc' = AfterRaise("save_last_processed_id")
                       /\ run' = Caught(started, "save_last_processed_id")
                       /\ UNCHANGED <<last_feed_id_txt, saved_hi>>
             ELSE /\ io = "ok"
                  /\ pc' = "loaded"
                  /\ run' = [started EXCEPT !.first = FALSE]
                  /\ UNCHANGED <<last_feed_id_txt, saved_hi>>
    /\ faults' = FaultCount(io)
    /\ UNCHANGED <<delivered, apart,
                   processed_hashes_txt, source, new_feeds, processed_hashes,
                   published_count, max_processed_id_int, i, history>>

\* Lines 465-475: fetch, return when nothing is new, else load the ledger and
\* set up the loop. `io` is what open('processed_hashes.txt') does: "raise"
\* is an error other than FileNotFoundError.
Fetch(failing, io) ==
    /\ pc = "loaded"
    /\ faults + Cardinality(failing) + (IF io = "ok" THEN 0 ELSE 1) <= MaxFaults
    /\ LET feeds == fetch_new_feeds(last_id_int, failing)
           fetched == [run EXCEPT !.failed = failing]
       IN /\ new_feeds' = feeds
          /\ IF feeds = <<>>
             THEN /\ io = "ok"
                  /\ pc' = "done"
                  /\ run' = fetched
                  /\ UNCHANGED <<processed_hashes, max_processed_id_int>>
             ELSE IF io = "ok"
                  THEN /\ pc' = "processing"
                       /\ run' = fetched
                       /\ processed_hashes' = get_processed_hashes
                       /\ max_processed_id_int' = last_id_int
                  ELSE /\ pc' = AfterRaise("get_processed_hashes")
                       /\ run' = Caught(fetched, "get_processed_hashes")
                       /\ UNCHANGED <<processed_hashes, max_processed_id_int>>
    /\ published_count' = 0
    /\ i' = 0
    /\ faults' = faults + Cardinality(failing) + (IF io = "ok" THEN 0 ELSE 1)
    /\ UNCHANGED <<delivered, apart,
                   last_feed_id_txt, processed_hashes_txt, source, last_id_int,
                   history, saved_hi>>

\* Lines 483-487: the id is in the ledger.
SkipProcessed ==
    /\ InLoop
    /\ AlreadyProcessed(Str(feed.id), processed_hashes)
    /\ max_processed_id_int' = TrackerAfterReject(max_processed_id_int, feed.id)
    /\ i' = i + 1
    /\ history' = Append(history, Entry(feed, "skipped", KeyInLedgerFile(feed.id)))
    /\ UNCHANGED <<delivered, apart,
                   last_feed_id_txt, processed_hashes_txt, source, pc, last_id_int,
                   new_feeds, processed_hashes, published_count, run, saved_hi,
                   faults>>

\* Lines 489-494 and 525-530: a filter rejects the item: record it, advance.
Reject(io, outcome) ==
    /\ IOAllowed(io)
    /\ faults' = FaultCount(io)
    /\ IF io = "ok"
       THEN /\ processed_hashes_txt' = save_processed_hash(Str(feed.id))
            /\ processed_hashes' = processed_hashes \cup {Str(feed.id)}
            /\ max_processed_id_int' = TrackerAfterReject(max_processed_id_int, feed.id)
            /\ i' = i + 1
            /\ history' = Append(history, Entry(feed, outcome, KeyInLedgerFile(feed.id)))
            /\ UNCHANGED <<pc, run>>
       ELSE /\ pc' = AfterRaise("save_processed_hash")
            /\ run' = Caught(run, "save_processed_hash")
            /\ UNCHANGED <<processed_hashes_txt, processed_hashes,
                           max_processed_id_int, i, history>>
    /\ UNCHANGED <<delivered, apart,
                   last_feed_id_txt, source, last_id_int, new_feeds,
                   published_count, saved_hi>>

SkipMemeCoin(io) ==
    /\ InLoop
    /\ ~AlreadyProcessed(Str(feed.id), processed_hashes)
    /\ IsMemeCoin(feed)
    /\ Reject(io, "meme")

SkipNoise(io) ==
    /\ InLoop
    /\ ~AlreadyProcessed(Str(feed.id), processed_hashes)
    /\ ~IsMemeCoin(feed)
    /\ IsNoise(feed)
    /\ Reject(io, "noise")

\* Mutant of PassesFilters: the filters do not `continue`.
PassesFilters_unfiltered == InLoop

\* Lines 484-530: no filter rejected the item, control reaches line 538.
PassesFilters ==
    /\ InLoop
    /\ ~AlreadyProcessed(Str(feed.id), processed_hashes)
    /\ ~IsMemeCoin(feed)
    /\ ~IsNoise(feed)

\* Lines 538-543: process_with_ai returned None.
Declined ==
    /\ PassesFilters
    /\ max_processed_id_int' = TrackerAfterDecline(max_processed_id_int, feed.id)
    /\ i' = i + 1
    /\ history' = Append(history, Entry(feed, "declined", KeyInLedgerFile(feed.id)))
    /\ run' = Staged(run, "transform", "declined")
    /\ UNCHANGED <<delivered, apart,
                   last_feed_id_txt, processed_hashes_txt, source, pc, last_id_int,
                   new_feeds, processed_hashes, published_count, saved_hi,
                   faults>>

\* Lines 538-549: process_with_ai returned an analysis; the id is recorded and
\* the tracker advanced before the publish is attempted.
Transform(io) ==
    /\ PassesFilters
    /\ IOAllowed(io)
    /\ faults' = FaultCount(io)
    /\ IF io = "ok"
       THEN /\ processed_hashes_txt' = save_processed_hash(Str(feed.id))
            /\ processed_hashes' = processed_hashes \cup {Str(feed.id)}
            /\ max_processed_id_int' = TrackerBeforePublish(max_processed_id_int, feed.id)
            /\ run' = [Staged(run, "transform", "analysis")
                           EXCEPT !.in_ledger = KeyInLedgerFile(feed.id)]
            /\ pc' = "publishing"
       ELSE /\ pc' = AfterRaise("save_processed_hash")
            /\ run' = Caught(Staged(run, "transform", "analysis"), "save_processed_hash")
            /\ UNCHANGED <<processed_hashes_txt, processed_hashes, max_processed_id_int>>
    /\ UNCHANGED <<delivered, apart,
                   last_feed_id_txt, source, last_id_int, new_feeds, published_count,
                   i, history, saved_hi>>

\* Lines 551-560: send_to_telegram returned `success`; the loop goes on either way.
Publish(success) ==
    /\ pc = "publishing"
    /\ published_count' = IF success THEN published_count + 1 ELSE published_count
    /\ history' = Append(history,
                         Entry(feed, IF success THEN "published" ELSE "publish_failed",
                               run.in_ledger))
    /\ i' = IndexAfterPublish(i, success, LoopLen(new_feeds))
    /\ run' = [Staged(run, "publish", IF success THEN "True" ELSE "False")
                   EXCEPT !.in_ledger = FALSE]
    /\ delivered' = IF success
                    THEN Append(delivered, [chat |-> chat_id(FALSE), kind |-> "content",
                                            id |-> feed.id])
                    ELSE delivered
    /\ pc' = "processing"
    /\ UNCHANGED <<apart,
                   last_feed_id_txt, processed_hashes_txt, source, last_id_int,
                   new_feeds, processed_hashes, max_processed_id_int, saved_hi,
                   faults>>

\* Lines 562-565: after the loop, save the tracker when it moved; summary.
Finish(io) ==
    /\ pc = "processing"
    /\ LoopOver(i, LoopLen(new_feeds))
    /\ IOAllowed(io)
    /\ faults' = FaultCount(io)
    /\ IF ShouldSave(max_processed_id_int, last_id_int)
       THEN IF io = "ok"
            THEN /\ last_feed_id_txt' = save_last_processed_id(Str(max_processed_id_int))
                 /\ saved_hi' = Max(saved_hi, IntOf(last_feed_id_txt'))
                 /\ pc' = "done"
                 /\ run' = [run EXCEPT !.wm_writes = @ + 1]
            ELSE /\ pc' = AfterRaise("save_last_processed_id")
                 /\ run' = Caught(run, "save_last_processed_id")
                 /\ UNCHANGED <<last_feed_id_txt, saved_hi>>
       ELSE /\ io = "ok"
            /\ pc' = "done"
            /\ UNCHANGED <<last_feed_id_txt, saved_hi, run>>
    /\ UNCHANGED <<delivered, apart,
                   processed_hashes_txt, source, last_id_int, new_feeds,
                   processed_hashes, published_count, max_processed_id_int, i,
                   history>>

\* Lines 567-572: the handler of main(). The notice is built from the error
\* and the head of the traceback, notify_error is called, and `raise` lets the
\* exception leave main(). `sent` is what send_to_telegram does in error mode:
\* it returns True or False, or raises.
Handler(traceback, sent) ==
    /\ pc = "aborted"
    /\ LET error_msg == Piece("Unhandled error: ", 17) \o ExceptionText
           notice == error_msg \o NL2 \o Slice(traceback, TracebackExcerpt)
       IN /\ run' = [run EXCEPT !.notify_calls = @ + 1,
                                !.notice = notice,
                                !.sent = sent,
                                !.propagated = Propagated(run.exc, notify_error(sent))]
          /\ delivered' = IF sent = "True"
                          THEN Append(delivered, [chat |-> chat_id(TRUE), kind |-> "error",
                                                  id |-> 0])
                          ELSE delivered
    /\ pc' = "raised"
    /\ UNCHANGED <<apart, last_feed_id_txt, processed_hashes_txt, source, last_id_int,
                   new_feeds, processed_hashes, published_count, max_processed_id_int,
                   i, history, saved_hi, faults>>

\* The process ends (return, or the exception of line 572 leaving main());
\* the scheduler may invoke main() again.
Exit ==
    /\ pc \in {"done", "raised"}
    /\ pc' = "idle"
    /\ ResetLocals
    /\ run' = NoRun
    /\ UNCHANGED <<delivered, apart,
                   last_feed_id_txt, processed_hashes_txt, source, history, saved_hi,
                   faults>>

\* The scheduler kills the process between two steps; the files stay as they are.
Kill ==
    /\ pc \in {"loaded", "processing", "publishing"}
    /\ faults < MaxFaults
    /\ faults' = faults + 1
    /\ pc' = "idle"
    /\ ResetLocals
    /\ run' = NoRun
    /\ UNCHANGED <<delivered, apart,
                   last_feed_id_txt, processed_hashes_txt, source, history, saved_hi>>

Next ==
    \/ \E io \in IOOutcomes : Begin(io)
    \/ \E failing \in SUBSET {id \in ValidIds : id > last_id_int}, io \in IOOutcomes :
           Fetch(failing, io)
    \/ SkipProcessed
    \/ \E io \in IOOutcomes : SkipMemeCoin(io)
    \/ \E io \in IOOutcomes : SkipNoise(io)
    \/ Declined
    \/ \E io \in IOOutcomes : Transform(io)
    \/ \E success \in BOOLEAN : Publish(success)
    \/ \E io \in IOOutcomes : Finish(io)
    \/ \E traceback \in Tracebacks, sent \in SendOutcomes : Handler(traceback, sent)
    \/ Exit
    \/ Kill

Spec == Init /\ [][Next]_vars

\* Repeated runs in which no request, transformer call, publish or file
\* operation fails and no run is killed. The scheduler keeps invoking main()
\* and every step of a run is taken: weak fairness of the whole relation.
NextLive ==
    \/ Begin("ok")
    \/ Fetch({}, "ok")
    \/ Transform("ok")
    \/ Publish(TRUE)
    \/ Finish("ok")
    \/ Exit

SpecLive == InitLive /\ [][NextLive]_vars /\ WF_vars(NextLive)

\* ============================================ send_to_telegram, one call
SendAttempts == 3
RetryDelay == 2

\* get_hashtags_from_title (lines 325-367): one to three tags joined by
\* spaces, "#BTC" the shortest, "#Memecoins #Altcoins #Markets" the longest.
Hashtags == {Piece("hashtags", n) : n \in {4, 29}}
\* get_emoji_for_sentiment (lines 311-323): one or two code points.
Emojis == {Piece("emoji", n) : n \in {1, 2}}
\* The text process_with_ai returns has 20 to 400 characters.
Texts == {Piece("text", n) : n \in {20, 400}}
\* feed_title: none, short, longer than max_title_len.
Titles == {Piece("title", n) : n \in {0, 30, 250}}
\* The sentiment is whatever the model answered (line 287): a label of the
\* prompt, or a string of any length.
Sentiments == {Piece("sentiment", n) : n \in {7, 3800, 3950, 4100}}
\* Error notices: "BOT ERROR", the error and the excerpt of the traceback.
Notices == {Piece("notice", n) : n \in {190, 5000}}

\* The calls followed: a publish as main() makes it (line 551) or without a
\* title, and an error notice as notify_error makes it (line 442).
Calls ==
    {[is_error |-> FALSE, analysis_data |-> [text |-> t, sentiment |-> s],
      feed_title |-> f, hashtags |-> h, emoji |-> e] :
         t \in Texts, s \in Sentiments, f \in Titles \ {<<>>}, h \in Hashtags,
         e \in Emojis}
    \cup
    {[is_error |-> FALSE, analysis_data |-> [text |-> t, sentiment |-> s],
      feed_title |-> <<>>, hashtags |-> <<>>, emoji |-> e] :
         t \in Texts, s \in Sentiments, e \in Emojis}
    \cup
    {[is_error |-> TRUE, analysis_data |-> m, feed_title |-> <<>>,
      hashtags |-> <<>>, emoji |-> <<>>] : m \in Notices}

Responses == {"200", "non200", "exception"}

\* The frame at the entry of send_to_telegram.
Entered(call) ==
    [pc |-> "entered", call |-> call, chat_id |-> None, message |-> <<>>,
     attempt |-> 0, log |-> <<>>, result |-> None]

\* A parked main(): nothing of it moves while a function is followed.
Parked ==
    MainInit({[exists |-> FALSE, text |-> <<>>]}, {[id \in Ids(MaxIds) |-> "missing"]})

InitSend ==
    /\ Parked
    /\ tg \in {Entered(call) : call \in Calls}
    /\ ai = NoCall
    /\ fx = NoCall

\* Lines 370-418: the chat and the message.
TgBuild ==
    /\ tg.pc = "entered"
    /\ tg' = [tg EXCEPT !.pc = "loop",
                        !.chat_id = chat_id(tg.call.is_error),
                        !.message = MessageOf(tg.call)]
    /\ UNCHANGED <<main_state, ai, fx>>

\* Lines 420-435: one turn of the loop: the request and what follows it.
TgAttempt(response) ==
    /\ tg.pc = "loop"
    /\ tg.attempt < SendAttempts
    /\ LET posted == Append(tg.log, [ev |-> "post", response |-> response, secs |-> 0])
           slept == Append(posted, [ev |-> "sleep", response |-> None, secs |-> RetryDelay])
       IN tg' = CASE response = "200" ->
                         [tg EXCEPT !.log = posted, !.result = "True", !.pc = "returned"]
                  [] response = "non200" ->
                         [tg EXCEPT !.log = posted, !.attempt = @ + 1]
                  [] response = "exception" ->
                         [tg EXCEPT !.log = IF tg.attempt < SendAttempts - 1
                                            THEN slept ELSE posted,
                                    !.attempt = @ + 1]
    /\ UNCHANGED <<main_state, ai, fx>>

\* Line 437: the loop is over.
TgReturnFalse ==
    /\ tg.pc = "loop"
    /\ tg.attempt >= SendAttempts
    /\ tg' = [tg EXCEPT !.result = "False", !.pc = "returned"]
    /\ UNCHANGED <<main_state, ai, fx>>

NextSend ==
    \/ TgBuild
    \/ \E response \in Responses : TgAttempt(response)
    \/ TgReturnFalse

SpecSend == InitSend /\ [][NextSend]_vars

\* ============================================= process_with_ai, one call
MaxContentLen == 2000
AiAttempts == 3
MinTextChars == 20
MaxTextChars == 400

\* feed['content']: shorter and longer than what is passed to the model.
Contents == {Piece("content", n) : n \in {60, 2500}}

\* What one call of the model gives, once the fences of lines 276-282 are
\* taken off: an exception (API error, timeout, empty reply), a reply that is
\* not JSON, JSON that is not an object (data.get raises AttributeError), or
\* an object with its text stripped.
SKIP == Piece("SKIP", 4)
AnswerTexts == {SKIP} \cup {Piece("text", n) : n \in {19, 20, 400, 401, 900}}
Answers ==
    {[kind |-> k, text |-> <<>>] : k \in {"exception", "not_json", "not_object"}}
    \cup {[kind |-> "object", text |-> t] : t \in AnswerTexts}

\* The value process_with_ai returns: None, or the dict of line 298.
ReturnNone == [none |-> TRUE, text |-> <<>>]
ReturnDict(text) == [none |-> FALSE, text |-> text]

\* Mutant of Backoff: the same pause before every retry.
Backoff_fixed(attempt) == 2
\* Line 307: time.sleep(2 ** attempt).
Backoff(attempt) == 2 ^ attempt

\* Lines 289-298: the result for an answer that parsed into an object.
ResultOf(text) ==
    IF text = SKIP \/ StrLen(text) < MinTextChars THEN ReturnNone
    ELSE IF StrLen(text) > MaxTextChars
         THEN ReturnDict(Slice(text, MaxTextChars - 3) \o Dots)
         ELSE ReturnDict(text)

AiEntered(content) ==
    [pc |-> "entered", content |-> content, attempt |-> 0, log |-> <<>>,
     result |-> ReturnNone]

InitAI ==
    /\ Parked
    /\ tg = NoCall
    /\ ai \in {AiEntered(content) : content \in Contents}
    /\ fx = NoCall

\* Lines 188-190: the content is cut for the prompt.
AiBegin ==
    /\ ai.pc = "entered"
    /\ ai' = [ai EXCEPT !.pc = "loop",
                        !.content = IF StrLen(ai.content) > MaxContentLen
                                    THEN Slice(ai.content, MaxContentLen)
                                    ELSE ai.content]
    /\ UNCHANGED <<main_state, tg, fx>>

\* Lines 192-307: one turn of the loop: the call of the model and what follows.
AiAttempt(answer) ==
    /\ ai.pc = "loop"
    /\ ai.attempt < AiAttempts
    /\ LET called == Append(ai.log, [ev |-> "call", answer |-> answer, secs |-> 0])
           slept == Append(called, [ev |-> "sleep", answer |-> answer,
                                    secs |-> Backoff(ai.attempt)])
       IN ai' = CASE answer.kind = "object" ->
                         [ai EXCEPT !.log = called, !.result = ResultOf(answer.text),
                                    !.pc = "returned"]
                  [] answer.kind = "not_json" ->
                         [ai EXCEPT !.log = called, !.result = ReturnNone,
                                    !.pc = "returned"]
                  [] answer.kind \in {"exception", "not_object"} ->
                         [ai EXCEPT !.log = IF ai.attempt < AiAttempts - 1
                                            THEN slept ELSE called,
                                    !.attempt = @ + 1]
    /\ UNCHANGED <<main_state, tg, fx>>

\* Line 309: the loop is over.
AiReturnNone ==
    /\ ai.pc = "loop"
    /\ ai.attempt >= AiAttempts
    /\ ai' = [ai EXCEPT !.result = ReturnNone, !.pc = "returned"]
    /\ UNCHANGED <<main_state, tg, fx>>

NextAI ==
    \/ AiBegin
    \/ \E answer \in Answers : AiAttempt(answer)
    \/ AiReturnNone

SpecAI == InitAI /\ [][NextAI]_vars

\* ============================================= fetch_new_feeds, one call
\* Sources over the ids one call can probe: `a` missing ids, then stretches of
\* `v` feeds separated by gaps of `g` missing ids.
Pattern(a, g, v) ==
    [id \in Ids(max_attempts) |->
         LET r == id - test_id
         IN IF r <= a THEN "missing"
            ELSE IF (r - a - 1) % (g + v) < v THEN "plain" ELSE "missing"]

FetchSources == {Pattern(a, g, v) : a \in {0, 4, 5}, g \in 0..5, v \in {1, 2, 16}}
\* The ids whose request fails transiently during the call.
FetchFailing == {{}, {test_id + 1}, {test_id + 6}}

\* Lines 63-71: the frame at the entry of fetch_new_feeds.
FxEntered(last_id, failing) ==
    [pc |-> "entered", last_id |-> last_id, failing |-> failing, new_feeds |-> <<>>,
     current_id |-> 0, consecutive_errors |-> 0, attempts |-> 0, broke |-> FALSE]

InitFetch ==
    /\ MainInit({[exists |-> TRUE, text |-> Str(test_id)]}, FetchSources)
    /\ tg = NoCall
    /\ ai = NoCall
    /\ fx \in {FxEntered(IntOf(last_feed_id_txt), failing) : failing \in FetchFailing}

\* Lines 64-71.
FxEnter ==
    /\ fx.pc = "entered"
    /\ fx' = [fx EXCEPT !.pc = "loop", !.current_id = fx.last_id + 1]
    /\ UNCHANGED <<main_state, tg, ai>>

\* Lines 72-182: one turn of the while loop: the probe of current_id.
FxProbe ==
    /\ fx.pc = "loop"
    /\ ~fx.broke
    /\ LoopGoesOn(Len(fx.new_feeds), fx.attempts)
    /\ IF ProbeOk(fx.current_id, fx.failing)
       THEN fx' = [fx EXCEPT
                      !.attempts = @ + 1,
                      !.consecutive_errors = ErrorsAfterSuccess(@),
                      !.new_feeds = Append(@, [id |-> fx.current_id,
                                               kind |-> Kind(fx.current_id)]),
                      !.current_id = @ + 1]
       ELSE IF TooManyErrors(fx.consecutive_errors + 1)
            THEN fx' = [fx EXCEPT !.attempts = @ + 1, !.consecutive_errors = @ + 1,
                                  !.broke = TRUE]
            ELSE fx' = [fx EXCEPT !.attempts = @ + 1, !.consecutive_errors = @ + 1,
                                  !.current_id = @ + 1]
    /\ UNCHANGED <<main_state, tg, ai>>

\* Lines 184-185: the loop has ended, by its condition or by a break.
FxReturn ==
    /\ fx.pc = "loop"
    /\ fx.broke \/ ~LoopGoesOn(Len(fx.new_feeds), fx.attempts)
    /\ fx' = [fx EXCEPT !.pc = "returned"]
    /\ UNCHANGED <<main_state, tg, ai>>

NextFetch ==
    \/ FxEnter
    \/ FxProbe
    \/ FxReturn

\* The loop is sequential code: a step that can be taken is taken.
SpecFetch == InitFetch /\ [][NextFetch]_vars /\ WF_vars(NextFetch)

\* ==================================== main() over a backlog, run after run
\* The backlog: a feed at every id above the baseline, but for one id that
\* is missing or that a filter rejects.
BatchSources ==
    {[id \in Ids(MaxBatchIds) |-> IF id = odd THEN kind ELSE "plain"] :
         odd \in {test_id, test_id + 1, test_id + 12, test_id + 13, test_id + 14},
         kind \in {"missing", "meme", "noise"}}

InitBatch == InitWith({[exists |-> TRUE, text |-> Str(test_id)]}, BatchSources)

\* The runs of a quiet period: every request is answered, the transform
\* returns an analysis, the publish succeeds, no file operation raises.
NextBatch ==
    \/ Begin("ok")
    \/ Fetch({}, "ok")
    \/ SkipMemeCoin("ok")
    \/ SkipNoise("ok")
    \/ Transform("ok")
    \/ Publish(TRUE)
    \/ Finish("ok")
    \/ Exit

SpecBatch == InitBatch /\ [][NextBatch]_vars

\* ======================================================== properties
\* The integer the program reads from the watermark file (0: never run).
WatermarkInt == IntOf(last_feed_id_txt)

\* The run in progress loaded the never-run sentinel: the file was missing,
\* empty, "0", or held something that is not a number.
SentinelAtStart ==
    LET t == Strip(run.wm_text)
    IN \/ ~run.wm_exists
       \/ t = <<>>
       \/ t = <<"0">>
       \/ \E k \in 1..Len(t) : ~IsDigit(t[k])

\* Positions of `history` that belong to the run in progress.
ThisRun == IF pc = "idle" THEN {} ELSE (run.hist_len + 1)..Len(history)
Handed(k) == history[k].outcome \in {"published", "publish_failed"}
\* The lines the run in progress has added to the ledger file.
LedgerAdded ==
    {processed_hashes_txt.lines[k] :
         k \in (run.ledger_len + 1)..Len(processed_hashes_txt.lines)}
KeysOf(positions) == {Str(history[k].id) : k \in positions}
SetMax(S) == CHOOSE m \in S : \A x \in S : x <= m

\* C1: through any sequence of runs (first run, run with nothing new, normal
\* run, aborted or killed run) the integer in last_feed_id.txt does not
\* decrease: it is at every moment the largest integer the file has held.
C1_WatermarkNeverDecreases == WatermarkInt >= saved_hi

\* C1 witness: a normal run that followed an aborted or killed one has
\* finished and has moved the watermark up.
C1_Witness ==
    /\ pc = "done"
    /\ ~run.first
    /\ faults > 0
    /\ run.failed = {}
    /\ WatermarkInt > last_id_int
    /\ last_id_int > 0

\* C2: no two successful publishes carry the same key, and an item whose key
\* was in the ledger file when the loop body took it is skipped: it is never
\* handed to send_to_telegram, not in the past and not now.
C2_NoDuplicatePublish ==
    /\ \A j, k \in DOMAIN history :
           (j < k /\ history[j].outcome = "published" /\ history[k].outcome = "published")
               => Str(history[j].id) # Str(history[k].id)
    /\ \A k \in DOMAIN history : history[k].in_ledger => history[k].outcome = "skipped"
    /\ pc = "publishing" => ~run.in_ledger

\* C2 witness: an item published by a run that did not save its watermark is
\* fetched again by a later run and skipped.
C2_Witness ==
    \E j, k \in DOMAIN history :
        /\ j < k
        /\ history[j].id = history[k].id
        /\ history[j].outcome = "published"
        /\ history[k].outcome = "skipped"
        /\ history[k].in_ledger

C4_FirstRunSavesNewest ==
    (pc = "done" /\ run.first /\ ValidIds # {}) => WatermarkInt = SetMax(ValidIds)

\* C5 (the claim as stated, on its own example): when the probe of an existing
\* feed X failed transiently and the run handled a later feed of the same
\* fetch, the watermark the run saved is below X.
C5_FailedProbeNotPassed ==
    (pc = "done" /\ ~run.first) =>
        \A x \in run.failed :
            (\E k \in ThisRun : history[k].id > x) => WatermarkInt < x

\* No max_consecutive_errors consecutive ids above w and below v are missing.
NoLongGap(w, v) ==
    ~\E a \in (w + 1)..(v - max_consecutive_errors) :
         \A b \in a..(a + max_consecutive_errors - 1) : Kind(b) = "missing"

\* C6 (the claim as stated): under repeated runs without failures, the
\* watermark reaches every feed that exists above it, whatever the number of
\* missing ids in between.
C6_ProgressAlways ==
    \A v \in Ids(MaxLiveIds) :
        (Kind(v) # "missing" /\ WatermarkInt < v) ~> (WatermarkInt >= v)

\* C6 (amended): under repeated runs without failures, the watermark reaches
\* every feed that exists above it, provided no 5 consecutive ids between the
\* watermark and the feed are missing.
C6_ProgressAcrossShortGaps ==
    \A v \in Ids(MaxLiveIds) :
        (Kind(v) # "missing" /\ WatermarkInt < v /\ NoLongGap(WatermarkInt, v))
            ~> (WatermarkInt >= v)

\* C6 witness: the watermark has reached a feed that came after four missing
\* ids, and the feed was published.
C6_Witness ==
    \E v \in Ids(MaxLiveIds) :
        /\ Kind(v) = "plain"
        /\ \A b \in (v - (max_consecutive_errors - 1))..(v - 1) :
               b \in DOMAIN source /\ Kind(b) = "missing"
        /\ WatermarkInt >= v
        /\ \E k \in DOMAIN history :
               history[k].id = v /\ history[k].outcome = "published"

C8_FailedPublishStopsRun ==
    \A k \in ThisRun :
        history[k].outcome = "publish_failed"
            => /\ k = Len(history) /\ pc # "publishing"
               /\ pc = "done" => WatermarkInt < history[k].id

\* C8 (amended): after a failed publish of X the loop takes the next item; X's
\* key is in the ledger file and the tracker is at least X, a completed run
\* leaves a watermark >= X, and whenever X is offered again it is skipped.
C8_FailedPublishIsSkippedForGood ==
    /\ \A k \in DOMAIN history :
           history[k].outcome = "publish_failed"
               => /\ KeyInLedgerFile(history[k].id)
                  /\ \A j \in DOMAIN history :
                         (j > k /\ history[j].id = history[k].id)
                             => history[j].outcome = "skipped"
    /\ \A k \in ThisRun :
           history[k].outcome = "publish_failed"
               => /\ pc \in {"processing", "publishing", "done"}
                         => max_processed_id_int >= history[k].id
                  /\ pc = "done" => WatermarkInt >= history[k].id
                  /\ (k = Len(history) /\ pc = "processing")
                         => new_feeds[i].id = history[k].id

\* C8 witness: a run in which a publish failed went on to handle a later item
\* and has saved a watermark past the failed one.
C8_Witness ==
    /\ pc = "done"
    /\ \E k \in ThisRun :
           /\ history[k].outcome = "publish_failed"
           /\ k < Len(history)
           /\ WatermarkInt > history[k].id

\* C9: every failed publish is handled one way. When the publish is attempted
\* the key is already in the ledger (file and set) and the tracker already at
\* the item; after a failure the loop takes the next item; and the item is
\* published by no later attempt.
C9_OnePublishFailurePolicy ==
    /\ pc = "publishing"
           => /\ KeyInLedgerFile(feed.id)
              /\ Str(feed.id) \in processed_hashes
              /\ max_processed_id_int >= feed.id
    /\ \A k \in DOMAIN history :
           history[k].outcome = "publish_failed"
               => /\ KeyInLedgerFile(history[k].id)
                  /\ \A j \in DOMAIN history :
                         j > k => ~(history[j].id = history[k].id /\ Handed(j))
    /\ (pc = "processing" /\ Len(history) \in ThisRun
            /\ history[Len(history)].outcome = "publish_failed")
           => (i >= 1 /\ new_feeds[i].id = history[Len(history)].id)

\* C9 witness: two publishes failed in one run, which went on and completed.
C9_Witness ==
    /\ pc = "done"
    /\ \E j, k \in ThisRun :
           /\ j < k
           /\ history[j].outcome = "publish_failed"
           /\ history[k].outcome = "publish_failed"

\* C10 (the claim as stated): after a completed run the keys it added to the
\* ledger are exactly the keys of the items it published.
C10_LedgerHoldsPublishedOnly ==
    (pc = "done" /\ ~run.first) =>
        LedgerAdded = KeysOf({k \in ThisRun : history[k].outcome = "published"})

\* C10 (amended): after a completed run the keys it added to the ledger are
\* exactly the keys of the items a filter rejected or a publish was attempted
\* for; declined items and items already recorded add none; the count is the
\* number of successful publishes and the watermark is the largest id handled.
C10_LedgerHoldsRejectedAndAttempted ==
    (pc = "done" /\ ~run.first) =>
        /\ LedgerAdded =
               KeysOf({k \in ThisRun : history[k].outcome
                           \in {"meme", "noise", "published", "publish_failed"}})
        /\ published_count =
               Cardinality({k \in ThisRun : history[k].outcome = "published"})
        /\ ThisRun # {} => WatermarkInt = SetMax({history[k].id : k \in ThisRun})

\* C10 witness, the scenario: watermark 100; 101 filtered, 103 published, 104
\* declined, 105 published: count 2, watermark 105, keys 101, 103 and 105 added.
C10_Witness ==
    /\ pc = "done"
    /\ last_id_int = 100
    /\ Len(history) = run.hist_len + 4
    /\ [n \in 1..4 |-> history[run.hist_len + n].id] = <<101, 103, 104, 105>>
    /\ WatermarkInt = 105
    /\ LedgerAdded = {Str(101), Str(103), Str(105)}
    /\ history[run.hist_len + 1].outcome = "meme"
    /\ history[run.hist_len + 2].outcome = "published"
    /\ history[run.hist_len + 3].outcome = "declined"
    /\ history[run.hist_len + 4].outcome = "published"
    /\ published_count = 2

\* The integers the watermark file can hold at deployment.
DeploymentValues == {IntOf(w) : w \in InitialWatermarks \cup ScenarioWatermarks}
HandledIds == {history[k].id : k \in DOMAIN history}
PublishedOrRejected ==
    {history[k].id : k \in {n \in DOMAIN history :
                                history[n].outcome \in {"published", "meme", "noise"}}}

DeliveredTo(chat) == {k \in DOMAIN delivered : delivered[k].chat = chat}

\* C13 (the claim as stated): in every configuration, ADMIN_CHAT_ID unset
\* included, every message delivered to TARGET_CHAT_ID is the output of a
\* successful transform of a fetched item; no error notice reaches it.
C13_TargetChatGetsContentOnly ==
    \A k \in DeliveredTo(TARGET_CHAT_ID) :
        /\ delivered[k].kind = "content"
        /\ \E n \in DOMAIN history :
               history[n].id = delivered[k].id /\ history[n].outcome = "published"

\* The program text of the notice: the error, a blank line, the excerpt.
NoticeError == Piece("Unhandled error: ", 17) \o ExceptionText
NoticeExcerpt == Drop(run.notice, StrLen(NoticeError) + StrLen(NL2))

\* C14: an exception raised inside main() after the watermark is loaded takes
\* the run to the handler and nowhere else; the handler calls notify_error
\* once, with the error and at most 500 characters of the traceback, and the
\* exception that leaves main() is the one that was caught, whether the
\* notice was delivered or not; such a run never ends normally.
C14_ExceptionNotifiedOnceAndReraised ==
    /\ run.exc # None <=> pc \in {"aborted", "raised"}
    /\ pc = "aborted" => (run.notify_calls = 0 /\ run.propagated = None)
    /\ pc = "raised"
           => /\ run.notify_calls = 1
              /\ run.propagated = run.exc
              /\ Take(run.notice, StrLen(NoticeError)) = NoticeError
              /\ StrLen(NoticeExcerpt) <= TracebackExcerpt
              /\ \A k \in DOMAIN NoticeExcerpt :
                     NoticeExcerpt[k].piece = "traceback" /\ NoticeExcerpt[k].from = 0

\* C14 witness: the ledger could not be read after a fetch that found feeds;
\* the traceback was longer than the excerpt, the notice was not delivered,
\* and the exception has left main().
C14_Witness ==
    /\ pc = "raised"
    /\ run.exc = "get_processed_hashes"
    /\ ~run.first
    /\ new_feeds # <<>>
    /\ StrLen(NoticeExcerpt) = TracebackExcerpt
    /\ run.sent = "False"
    /\ Len(delivered) = run.exc_delivered
    /\ run.propagated = "get_processed_hashes"

\* C15: once save_processed_hash or save_last_processed_id has raised, the run
\* is in the handler or has left main() with that exception: no item is
\* handled after that point, the item whose ledger append failed is never
\* handed to send_to_telegram by this run, no content is delivered, and the
\* run does not end normally.
C15_PersistenceFailureIsFatal ==
    run.save_raised =>
        /\ pc \in {"aborted", "raised"}
        /\ pc = "raised" => run.propagated = run.exc
        /\ run.exc \in {"save_processed_hash", "save_last_processed_id"}
        /\ \A k \in (run.exc_delivered + 1)..Len(delivered) :
               delivered[k].kind # "content"
        /\ \A k \in ThisRun : history[k].id # run.exc_item
        /\ run.exc = "save_processed_hash"
               => /\ run.exc_item = new_feeds[i + 1].id
                  /\ ~KeyInLedgerFile(run.exc_item)

\* C15 witness: the ledger append of an item that passed the filters raised
\* after an earlier item of the run had been published; the exception has
\* left main() and the item was not published.
C15_Witness ==
    /\ pc = "raised"
    /\ run.exc = "save_processed_hash"
    /\ Kind(run.exc_item) = "plain"
    /\ \E k \in ThisRun : history[k].outcome = "published"
    /\ \A k \in DOMAIN delivered : delivered[k].id # run.exc_item

\* The items the loop of the run in progress runs over: new_feeds[:12].
LoopIds == {new_feeds[n].id : n \in 1..LoopLen(new_feeds)}

C19_NotifyErrorNeverRaises ==
    pc = "raised" =>
        /\ run.sent \in SendOutcomes
        /\ notify_error(run.sent) = "returned"
        /\ run.propagated # "raised in handler"
        /\ run.propagated = run.exc

\* C19 witness: send_to_telegram raised inside notify_error, and the exception
\* of the failed ledger append has left main().
C19_Witness ==
    /\ pc = "raised"
    /\ run.sent = "raise"
    /\ run.exc = "save_processed_hash"
    /\ run.propagated = "save_processed_hash"

\* C20: within one run the items are handled in strictly increasing id order;
\* the tracker never falls below an item handled and, after each item, is that
\* item's id; the items not yet handled are the rest of the list, all with ids
\* above the tracker (above the item in hand while a publish is under way).
C20_OldestFirst ==
    pc \in {"processing", "publishing", "done", "aborted", "raised"} =>
        /\ \A j, k \in ThisRun : j < k => history[j].id < history[k].id
        /\ [n \in 1..Cardinality(ThisRun) |-> history[run.hist_len + n].id]
               = [n \in 1..Cardinality(ThisRun) |-> new_feeds[n].id]
        /\ Cardinality(ThisRun) = i
        /\ \A m, n \in DOMAIN new_feeds : m < n => new_feeds[m].id < new_feeds[n].id
        /\ (new_feeds # <<>> /\ run.exc # "get_processed_hashes")
               => /\ max_processed_id_int >= last_id_int
                  /\ \A k \in ThisRun : history[k].id <= max_processed_id_int
                  /\ (i >= 1 /\ pc # "publishing") => max_processed_id_int = new_feeds[i].id
                  /\ pc = "publishing" => max_processed_id_int = new_feeds[i + 1].id
                  /\ \A n \in DOMAIN new_feeds :
                         ((n > i /\ pc # "publishing") \/ n > i + 1)
                             => new_feeds[n].id > max_processed_id_int

\* C20 witness: a run was killed or aborted, or simply stands, between two
\* items: one handled, the tracker at its id, a later one not yet handled.
C20_Witness ==
    /\ pc = "processing"
    /\ i >= 1
    /\ i < Len(new_feeds)
    /\ max_processed_id_int = new_feeds[i].id
    /\ new_feeds[i + 1].id > max_processed_id_int + 1

\* The message of the publish followed if nothing had to be cut.
Untruncated ==
    Header(tg.call.hashtags, tg.call.emoji, CutTitle(tg.call.feed_title))
        \o tg.call.analysis_data.text \o Footer(tg.call.analysis_data.sentiment)

\* C12 (the claim as stated): for every text, title, hashtags and sentiment
\* the message posted to the target chat has at most 4096 characters and,
\* whenever something had to be cut, still ends with the whole footer
\* "\n\nContext: <sentiment>".
C12_TruncationKeepsFooter ==
    (tg.pc \in {"loop", "returned"} /\ ~tg.call.is_error) =>
        /\ StrLen(tg.message) <= MessageCap
        /\ StrLen(Untruncated) > MessageCap
               => EndsWith(tg.message, Footer(tg.call.analysis_data.sentiment))

Posts == {k \in DOMAIN tg.log : tg.log[k].ev = "post"}

\* C17 (the claim as stated): at most 3 attempts; True at the first attempt
\* answered 200, and none after it; False exactly when 3 attempts failed; and
\* between any two consecutive attempts one pause of the same length, after
\* an exception and after a response that was not 200 alike.
C17_RetryWithFixedDelay ==
    tg.pc \in {"loop", "returned"} =>
        /\ Cardinality(Posts) <= SendAttempts
        /\ \A k \in Posts : tg.log[k].response = "200"
               => (k = Len(tg.log) /\ tg.result = "True" /\ tg.pc = "returned")
        /\ tg.pc = "returned" => tg.result \in {"True", "False"}
        /\ tg.result = "False"
               <=> /\ tg.pc = "returned"
                   /\ Cardinality(Posts) = SendAttempts
                   /\ \A k \in Posts : tg.log[k].response # "200"
        /\ \A j, k \in Posts :
               (j < k /\ ~\E m \in Posts : j < m /\ m < k)
                   => /\ k = j + 2
                      /\ tg.log[j + 1] = [ev |-> "sleep", response |-> None,
                                          secs |-> RetryDelay]

ModelCalls == {k \in DOMAIN ai.log : ai.log[k].ev = "call"}
FailedCall(k) == ai.log[k].answer.kind \in {"exception", "not_object"}

\* C18: process_with_ai calls the model at most 3 times; a call is followed by
\* another only when it failed, after a pause of 1 s (first retry) or 2 s
\* (second retry), and no pause follows the last call; it returns None when
\* all 3 calls failed, when the text is SKIP or shorter than 20 characters,
\* and when the reply is not JSON; a result that is not None has a text of 20
\* to 400 characters; the content given to the model has at most 2000.
C18_TransformRetriesAndDeclines ==
    ai.pc \in {"loop", "returned"} =>
        /\ Cardinality(ModelCalls) <= AiAttempts
        /\ StrLen(ai.content) <= MaxContentLen
        /\ \A k \in ModelCalls :
               k < Len(ai.log)
                   => /\ FailedCall(k)
                      /\ ai.log[k + 1].ev = "sleep"
                      /\ ai.log[k + 1].secs = (IF k = 1 THEN 1 ELSE 2)
                      /\ k + 2 \in ModelCalls \/ (k + 1 = Len(ai.log) /\ ai.pc = "loop")
        /\ ai.pc = "returned" =>
               LET last == ai.log[Len(ai.log)]
               IN /\ last.ev = "call"
                  /\ ai.result.none
                         <=> \/ Cardinality(ModelCalls) = AiAttempts /\ FailedCall(Len(ai.log))
                             \/ last.answer.kind = "not_json"
                             \/ /\ last.answer.kind = "object"
                                /\ \/ last.answer.text = SKIP
                                   \/ StrLen(last.answer.text) < MinTextChars
                  /\ ~ai.result.none
                         => /\ StrLen(ai.result.text) >= MinTextChars
                            /\ StrLen(ai.result.text) <= MaxTextChars
                            /\ Take(ai.result.text, MaxTextChars - 3)
                                   = Take(last.answer.text, MaxTextChars - 3)

\* C18 witness: two calls failed, the pauses were 1 s and 2 s, and the third
\* call gave a text of 900 characters, returned cut to 400.
C18_Witness ==
    /\ ai.pc = "returned"
    /\ Len(ai.log) = 5
    /\ ai.log[1].answer.kind = "exception"
    /\ ai.log[2].secs = 1
    /\ ai.log[3].answer.kind = "not_object"
    /\ ai.log[4].secs = 2
    /\ ai.log[5].answer.text = Piece("text", 900)
    /\ ~ai.result.none
    /\ StrLen(ai.result.text) = MaxTextChars
    /\ EndsWith(ai.result.text, Dots)

\* The ids the call followed has probed so far, and those whose probe failed.
Probed ==
    IF fx.pc = "entered" THEN {}
    ELSE (fx.last_id + 1)..(IF fx.broke THEN fx.current_id ELSE fx.current_id - 1)
FetchedIds == {fx.new_feeds[n].id : n \in DOMAIN fx.new_feeds}

\* C21, safety part: at most 50 probes, at most 15 items, ids pairwise
\* distinct and within last_id+1 .. last_id+50; every probe that succeeded
\* is in the list, also when later probes failed; what is returned is the list
\* main() receives, empty when nothing is new.
C21_FetchBounds ==
    /\ fx.attempts <= max_attempts
    /\ fx.attempts = Cardinality(Probed)
    /\ Len(fx.new_feeds) <= max_new_feeds
    /\ \A m, n \in DOMAIN fx.new_feeds : m # n => fx.new_feeds[m].id # fx.new_feeds[n].id
    /\ \A id \in FetchedIds : id > fx.last_id /\ id <= fx.last_id + max_attempts
    /\ FetchedIds = {id \in Probed : ProbeOk(id, fx.failing)}
    /\ fx.pc = "returned" => fx.new_feeds = fetch_new_feeds(fx.last_id, fx.failing)

\* C21: fetch_new_feeds always terminates, after at most 50 probes, with a
\* list (empty when nothing is new) of at most 15 items with distinct ids
\* above last_id and at most last_id + 50; the items collected before a
\* failing probe are returned.
C21_FetchTerminatesWithinBounds == []C21_FetchBounds /\ <>(fx.pc = "returned")

\* C21 witness: the call has returned after 50 probes with 10 items, every
\* one of them found after failing probes.
C21_Witness ==
    /\ fx.pc = "returned"
    /\ fx.attempts = max_attempts
    /\ Len(fx.new_feeds) = 10
    /\ ~fx.broke
    /\ \E id \in Probed : id < fx.new_feeds[1].id

LastProbed == IF fx.broke THEN fx.current_id ELSE fx.current_id - 1
\* max_consecutive_errors consecutive ids above `from` and below `v` fail.
LongGapBefore(from, v) ==
    \E a \in (from + 1)..(v - max_consecutive_errors) :
        \A b \in a..(a + max_consecutive_errors - 1) : ~ProbeOk(b, fx.failing)
FeedsBelow(v) == {u \in (fx.last_id + 1)..(v - 1) : ProbeOk(u, fx.failing)}

\* C22: the counter is the number of failed probes since the last successful
\* one (a success resets it to 0); the loop breaks only with the counter at 5;
\* and a feed that no 5 consecutive failing ids separate from last_id, within
\* the first 50 ids and with fewer than 15 feeds below it, is in the list the
\* call returns.
C22_StopsOnlyAfterFiveFailures ==
    fx.pc \in {"loop", "returned"} =>
        /\ fx.consecutive_errors <= max_consecutive_errors
        /\ \A id \in Probed :
               id > LastProbed - fx.consecutive_errors => ~ProbeOk(id, fx.failing)
        /\ fx.consecutive_errors < Cardinality(Probed)
               => ProbeOk(LastProbed - fx.consecutive_errors, fx.failing)
        /\ fx.broke <=> fx.consecutive_errors = max_consecutive_errors
        /\ (fx.pc = "returned" /\ ~fx.broke)
               => ~LoopGoesOn(Len(fx.new_feeds), fx.attempts)
        /\ fx.pc = "returned"
               => \A v \in (fx.last_id + 1)..(fx.last_id + max_attempts) :
                      (/\ ProbeOk(v, fx.failing)
                       /\ ~LongGapBefore(fx.last_id, v)
                       /\ Cardinality(FeedsBelow(v)) < max_new_feeds)
                          => v \in FetchedIds

\* C22 witness: the call returned a feed found right after 4 consecutive
\* failed probes, and ended later by a break at the 5th failure in a row.
C22_Witness ==
    /\ fx.pc = "returned"
    /\ fx.broke
    /\ fx.new_feeds # <<>>
    /\ fx.new_feeds[1].id = fx.last_id + max_consecutive_errors


\* The watermark file is as main() found it at line 450.
FileAsLoaded ==
    /\ last_feed_id_txt.exists = run.wm_exists
    /\ last_feed_id_txt.text = run.wm_text

\* C23: a run writes the watermark file at most once, and the write is its
\* last persistent action: it comes after the loop has handled every item of
\* the slice, and the run is over with it. The file stays as it was loaded
\* while the run has not written, when the fetch returned no item, when the
\* tracker does not exceed the loaded watermark, and when the run aborts at
\* any earlier point (a killed run never gets to the write).
C23_WatermarkWrittenOnceAtEnd ==
    pc # "idle" =>
        /\ run.wm_writes <= 1
        /\ run.wm_writes = 0 => FileAsLoaded
        /\ pc \in {"loaded", "processing", "publishing", "aborted", "raised"}
              => run.wm_writes = 0
        /\ run.exc # None => run.wm_writes = 0
        /\ (run.wm_writes = 1 /\ ~run.first) =>
              /\ pc = "done"
              /\ new_feeds # <<>>
              /\ i = LoopLen(new_feeds)
              /\ Cardinality(ThisRun) = i
              /\ max_processed_id_int > last_id_int
              /\ last_feed_id_txt = save_last_processed_id(Str(max_processed_id_int))
        /\ (pc = "done" /\ ~run.first
              /\ (new_feeds = <<>> \/ max_processed_id_int <= last_id_int))
              => run.wm_writes = 0

\* A run that handled two items has written the watermark, once, at its end.
C23_Witness ==
    /\ pc = "done"
    /\ ~run.first
    /\ i = 2
    /\ run.wm_writes = 1
    /\ ~FileAsLoaded


\* The item of the fetched list with the id `id`.
ItemOf(id) == CHOOSE f \in {new_feeds[n] : n \in 1..Len(new_feeds)} : f.id = id
StagesOf(id) == {k \in 1..Len(run.stages) : run.stages[k].id = id}

\* C24: the stages of an item come in order. process_with_ai is called only
\* for an item that passed every filter: its id was not in the ledger, it is
\* no meme-coin post and no noise. send_to_telegram is called only right
\* after process_with_ai returned an analysis for the same item. An item a
\* filter rejected has no transform call, an item the transform declined has
\* no publish call.
C24_StagesInOrder ==
    pc # "idle" =>
        /\ \A k \in 1..Len(run.stages) :
              LET call == run.stages[k] IN
              /\ call.id \in {new_feeds[n].id : n \in 1..LoopLen(new_feeds)}
              /\ call.stage = "transform" =>
                    /\ ~call.known
                    /\ ItemOf(call.id).kind \notin {"meme", "noise"}
              /\ call.stage = "publish" =>
                    /\ k > 1
                    /\ run.stages[k - 1] = [stage |-> "transform", id |-> call.id,
                                            known |-> FALSE, result |-> "analysis"]
              /\ (call.stage = "transform" /\ call.result = "declined") =>
                    \A j \in StagesOf(call.id) : run.stages[j].stage # "publish"
        /\ \A h \in ThisRun :
              history[h].outcome \in {"skipped", "meme", "noise"}
                 => StagesOf(history[h].id) = {}

\* One run rejected an item, had one declined and published one.
C24_Witness ==
    /\ pc = "processing"
    /\ \E h \in ThisRun : history[h].outcome = "meme"
    /\ \E k \in 1..Len(run.stages) :
          run.stages[k].stage = "transform" /\ run.stages[k].result = "declined"
    /\ \E k \in 1..Len(run.stages) :
          run.stages[k].stage = "publish" /\ run.stages[k].result = "True"


\* The content messages the target chat has received, by position in `delivered`.
ContentDeliveries ==
    {k \in 1..Len(delivered) :
        delivered[k].kind = "content" /\ delivered[k].chat = TARGET_CHAT_ID}
\* The ledger file as the current run found it: the file only grows.
LedgerAtStart ==
    {Strip(processed_hashes_txt.lines[k]) :
        k \in 1..Min(run.ledger_len, Len(processed_hashes_txt.lines))}
\* The ids an earlier run handled to the end of the loop body.
SettledBefore == {history[h].id : h \in 1..run.hist_len}

\* C25: at most once across crashes. The id is in the ledger file by the time
\* send_to_telegram is called, so whatever kills and aborts come between the
\* steps of any sequence of runs, no two content messages in the target chat
\* are of the same item, and no run calls send_to_telegram for an item whose
\* id an earlier run, killed or not, had recorded in the ledger.
C25_AtMostOnceAcrossCrashes ==
    /\ \A j, k \in ContentDeliveries :
          delivered[j].id = delivered[k].id => j = k
    /\ pc = "publishing" =>
          /\ KeyInLedgerFile(feed.id)
          /\ \A k \in ContentDeliveries : delivered[k].id # feed.id
    /\ pc # "idle" =>
          \A k \in 1..Len(run.stages) :
              run.stages[k].stage = "publish"
                 => Str(run.stages[k].id) \notin LedgerAtStart

\* A run was killed after it had recorded an id and before the publish; the
\* next run fetched the item again and skipped it: it is in no chat.
C25_Witness ==
    /\ pc = "processing"
    /\ \E h \in ThisRun :
          /\ history[h].outcome = "skipped"
          /\ history[h].id \notin SettledBefore
          /\ Str(history[h].id) \in LedgerAtStart
          /\ \A k \in 1..Len(delivered) : delivered[k].id # history[h].id


\* The calls of send_to_telegram the run in progress has made for items.
PublishCalls == {k \in 1..Len(run.stages) : run.stages[k].stage = "publish"}
\* What the fetcher returns to a run that starts from the file as it is now.
NextFetched == fetch_new_feeds(WatermarkInt, {})
\* The items the run in progress fetched and its loop leaves out.
LeftOver == {new_feeds[n] : n \in (MAX_FEEDS_PER_RUN + 1)..Len(new_feeds)}

\* C26: the fetcher returns up to 15 items, a run handles at most
\* MAX_FEEDS_PER_RUN = 12 of them and calls send_to_telegram at most 12
\* times. When more than 12 were fetched, the watermark the run saves is at
\* most the id of the 12th item; the 13th to 15th are in no ledger line, the
\* next run fetches them again within the slice its loop handles, and no
\* feed at or below the saved watermark is left unhandled.
C26_RunHandlesAtMostTwelve ==
    pc # "idle" =>
        /\ Len(new_feeds) <= max_new_feeds
        /\ i <= MAX_FEEDS_PER_RUN
        /\ Cardinality(ThisRun) <= MAX_FEEDS_PER_RUN
        /\ Cardinality(PublishCalls) <= MAX_FEEDS_PER_RUN
        /\ Len(new_feeds) > MAX_FEEDS_PER_RUN =>
              /\ WatermarkInt <= new_feeds[MAX_FEEDS_PER_RUN].id
              /\ \A f \in LeftOver : ~KeyInLedgerFile(f.id)
              /\ pc = "done" =>
                    \A f \in LeftOver :
                        \E m \in 1..LoopLen(NextFetched) : NextFetched[m] = f
        /\ pc = "done" =>
              \A id \in ValidIds : id <= WatermarkInt => id \in HandledIds

\* The first run fetched 15 items and handled 12; the run after it has
\* fetched the 13th to 15th again and handled them.
C26_Witness ==
    /\ pc = "done"
    /\ Len(history) >= max_new_feeds
    /\ history[MAX_FEEDS_PER_RUN].last = test_id
    /\ history[MAX_FEEDS_PER_RUN].id = last_id_int
    /\ \A k \in (MAX_FEEDS_PER_RUN + 1)..max_new_feeds :
          /\ history[k].last = history[MAX_FEEDS_PER_RUN].id
          /\ k \in ThisRun
    /\ Len(new_feeds) >= max_new_feeds - MAX_FEEDS_PER_RUN

====
